---------------------------- MODULE Spec2Model ----------------------------
(***************************************************************************)
(* picterm: the image viewer (viewer.cpp), its window (x11.cpp) and the    *)
(* image transforms (image.cpp), as a state machine.                       *)
(*                                                                         *)
(* Arithmetic follows the C++ types: size_t values wrap modulo SizeModulus,*)
(* ssize_t values are signed, and every `float` expression is evaluated in *)
(* IEEE-754 binary32 with round-to-nearest-even after each operation       *)
(* (FLT_EVAL_METHOD 0, the x86-64 and aarch64 default).                    *)
(***************************************************************************)
EXTENDS Integers, Sequences, FiniteSets, TLC

(***************************************************************************)
(* Program constants (viewer.cpp:8-15).                                    *)
(***************************************************************************)
scale_min == 1
scale_max == 1000
scale_step == 5
move_step == 10

(***************************************************************************)
(* size_t / ssize_t.  size_t is 64 bits wide in the program; TLC's integers*)
(* are 32 bits wide, so the modulus 2^64 is represented by 2^30.  Every    *)
(* size the viewer reaches is below 2^20, so a wrapped (negative) value is *)
(* larger than every genuine size exactly as it is under 2^64.             *)
(***************************************************************************)
SizeModulus == 1073741824

\* conversion of a signed value to size_t
ToSizeT(x) == x % SizeModulus

\* conversion of a size_t value to ssize_t
ToSSizeT(u) == IF u >= SizeModulus \div 2 THEN u - SizeModulus ELSE u

\* signed division by two, truncating toward zero (C++ `delta / 2`)
SDiv2(d) == IF d >= 0 THEN d \div 2 ELSE -((-d) \div 2)

(***************************************************************************)
(* IEEE-754 binary32.  A float is <<m, e>> with value m * 2^e, where       *)
(* m = 0 or 2^23 <= m < 2^24.  Only finite non-negative values occur.      *)
(***************************************************************************)
Pow2(n) == 2 ^ n

FZero == <<0, 0>>

\* the number of binary digits of 0 < n < 2^24
BitLen(n) ==
    IF n < 4096
    THEN (IF n < 64
          THEN (IF n < 8 THEN (IF n < 2 THEN 1 ELSE IF n < 4 THEN 2 ELSE 3)
                ELSE (IF n < 16 THEN 4 ELSE IF n < 32 THEN 5 ELSE 6))
          ELSE (IF n < 512 THEN (IF n < 128 THEN 7 ELSE IF n < 256 THEN 8 ELSE 9)
                ELSE (IF n < 1024 THEN 10 ELSE IF n < 2048 THEN 11 ELSE 12)))
    ELSE (IF n < 262144
          THEN (IF n < 32768
                THEN (IF n < 8192 THEN 13 ELSE IF n < 16384 THEN 14 ELSE 15)
                ELSE (IF n < 65536 THEN 16 ELSE IF n < 131072 THEN 17 ELSE 18))
          ELSE (IF n < 2097152
                THEN (IF n < 524288 THEN 19 ELSE IF n < 1048576 THEN 20 ELSE 21)
                ELSE (IF n < 4194304 THEN 22 ELSE IF n < 8388608 THEN 23 ELSE 24)))

\* round-to-nearest-even of (q + rem/unit) * 2^e, where 2^23 <= q < 2^24
RoundRNE(q, rem, unit, e) ==
    LET up == (2 * rem > unit) \/ (2 * rem = unit /\ q % 2 = 1)
        q1 == IF up THEN q + 1 ELSE q
    IN  IF q1 = 16777216 THEN <<8388608, e + 1>> ELSE <<q1, e>>

\* static_cast<float>(n) for 0 <= n < 2^31: exact below 2^24, and rounded
\* to nearest-even on the k bits that do not fit above
FromNat(n) ==
    IF n = 0 THEN FZero
    ELSE IF n < 16777216
    THEN <<n * Pow2(24 - BitLen(n)), BitLen(n) - 24>>
    ELSE LET k == BitLen(n \div 16777216)
         IN  RoundRNE(n \div Pow2(k), n % Pow2(k), Pow2(k), k)

\* k <= 6 more quotient bits of r/d by long division, from the quotient
\* and remainder qr = <<q, r>> with r < d < 2^24
DivBits(qr, d, k) ==
    <<qr[1] * Pow2(k) + (qr[2] * Pow2(k)) \div d, (qr[2] * Pow2(k)) % d>>

\* a / b, both float, b # 0
FDiv(a, b) ==
    IF a[1] = 0 THEN FZero
    ELSE LET ma == a[1]
             mb == b[1]
             \* ma/mb lies in (1/2, 2): 23 or 24 fraction bits give 24 significant bits
             n  == IF ma >= mb THEN 23 ELSE 24
             q0 == <<ma \div mb, ma % mb>>
             qr == DivBits(DivBits(DivBits(DivBits(q0, mb, 6), mb, 6), mb, 6),
                           mb, n - 18)
         IN  RoundRNE(qr[1], qr[2], mb, a[2] - b[2] - n)

\* a * b, both float
FMul(a, b) ==
    IF a[1] = 0 \/ b[1] = 0 THEN FZero
    ELSE LET ah == a[1] \div 4096
             al == a[1] % 4096
             bh == b[1] \div 4096
             bl == b[1] % 4096
             \* the 48-bit product in limbs of 12 bits: top * 2^24 + l1 * 2^12 + l0
             p0 == al * bl
             l0 == p0 % 4096
             mid == ah * bl + al * bh + p0 \div 4096
             l1 == mid % 4096
             top == ah * bh + mid \div 4096
             e  == a[2] + b[2]
         IN  IF top >= 8388608
             THEN RoundRNE(top, l1 * 4096 + l0, 16777216, e + 24)
             ELSE RoundRNE(2 * top + l1 \div 2048,
                           (l1 % 2048) * 4096 + l0, 8388608, e + 23)

\* static_cast<size_t>(f): truncation toward zero
FToNat(f) ==
    IF f[1] = 0 THEN 0
    ELSE IF f[2] >= 0 THEN f[1] * Pow2(f[2])
    ELSE IF -f[2] >= 24 THEN 0
    ELSE f[1] \div Pow2(-f[2])

(***************************************************************************)
(* image (image.hpp): width, height, the transparent flag and the pixel    *)
(* array `data`, row-major.  Sequences are 1-based: data[i] of the program *)
(* is data[i + 1] here.                                                    *)
(***************************************************************************)
Image(w, h, t, d) == [width |-> w, height |-> h, transparent |-> t, data |-> d]

\* a default-constructed image (image.hpp:37-44)
EmptyImage == Image(0, 0, FALSE, <<>>)

\* `const float scale = static_cast<float>(percent) / 100.0` (image.cpp:219):
\* the quotient is taken in binary64 and rounded to binary32 on assignment;
\* for every percent below 2^22 that double rounding equals the correctly
\* rounded binary32 quotient (the binary expansion of k/25 has period 20, so
\* it has no run of bits long enough to sit on a binary64-rounded midpoint).
ResizeScale(percent) == FDiv(FromNat(percent), FromNat(100))

\* `img.width = scale * width` (image.cpp:222-223): float product, truncated
ResizeDim(percent, n) == FToNat(FMul(ResizeScale(percent), FromNat(n)))

\* bounds of the buffers image::resize is applied to on its own: the
\* source is at most MaxResizeWidth x MaxResizeHeight pixels and the result
\* at most MaxResizePixels pixels
MaxResizeWidth == 16
MaxResizeHeight == 2
MaxResizePixels == 256

\* the source index of destination coordinate x at the float factor `scale`
SampleAt(scale, x) == FToNat(FDiv(FromNat(x), scale))

\* image::resize with the transparent flag left at its default (a variant
\* that loses the flag)
ResizeDropsFlag(src, percent) ==
    LET scale == ResizeScale(percent)
        w == FToNat(FMul(scale, FromNat(src.width)))
        h == FToNat(FMul(scale, FromNat(src.height)))
        col == [x \in 1..w |-> SampleAt(scale, x - 1)] \o <<>>
        row == [y \in 1..h |-> SampleAt(scale, y - 1) * src.width] \o <<>>
    IN  Image(w, h, FALSE,
              [i \in 1..(w * h) |->
                  src.data[row[((i - 1) \div w) + 1] + col[((i - 1) % w) + 1] + 1]])

\* image::resize (image.cpp:217-236): destination pixel (x, y) is
\* data[y * img.width + x] and is read from data[row_src + x_src].  The
\* source column depends on x alone and row_src on y alone, so each is
\* tabulated as a sequence (col[x + 1], row[y + 1]; `\o <<>>` has TLC build
\* the table once).
Resize(src, percent) ==
    LET scale == ResizeScale(percent)
        w == FToNat(FMul(scale, FromNat(src.width)))
        h == FToNat(FMul(scale, FromNat(src.height)))
        col == [x \in 1..w |-> SampleAt(scale, x - 1)] \o <<>>
        row == [y \in 1..h |-> SampleAt(scale, y - 1) * src.width] \o <<>>
    IN  Image(w, h, src.transparent,
              [i \in 1..(w * h) |->
                  src.data[row[((i - 1) \div w) + 1] + col[((i - 1) % w) + 1] + 1]])

(***************************************************************************)
(* image::add_grid (image.cpp:238-266).  A pixel and a grid colour are the *)
(* four bytes <<[31:24], [23:16], [15:8], [7:0]>> of an rgba_t, that is    *)
(* <<alpha, red, green, blue>>.                                            *)
(***************************************************************************)
\* the bytes of v < 2^24 under the top byte `top`
Bytes(top, v) == <<top, v \div 65536, (v \div 256) % 256, v % 256>>

\* `clr - 0x00101010` (image.cpp:241): one 32-bit subtraction, so a channel
\* below 0x10 borrows from the byte above it
Darker(clr) ==
    LET v == clr[2] * 65536 + clr[3] * 256 + clr[4] - 1052688
    IN  IF v >= 0 THEN Bytes(clr[1], v)
        ELSE Bytes((clr[1] - 1) % 256, v + 16777216)

\* one channel blended with exact division by 255 (a variant)
BlendExact(bkg, dst, alpha) == (bkg * (255 - alpha) + dst * alpha) \div 255

\* one channel of the blended pixel (image.cpp:253-260): the sum is below
\* 2^16, and the shift and mask keep its bits 8..15 in the channel's byte
Blend(bkg, dst, alpha) == (bkg * (255 - alpha) + dst * alpha) \div 256

\* the pixel at (x, y) blended whatever its alpha (a variant)
GridPixelBlendsOpaque(px, x, y, step, clr) ==
    LET alpha == px[1]
        bkg == IF (x \div step) % 2 # (y \div step) % 2 THEN clr ELSE Darker(clr)
    IN  <<Blend(bkg[1], px[1], alpha), Blend(bkg[2], px[2], alpha),
          Blend(bkg[3], px[3], alpha), Blend(bkg[4], px[4], alpha)>>

\* the pixel at (x, y) blended in red, green and blue and made opaque (a
\* variant that forces the alpha of the result)
GridPixelForcesAlpha(px, x, y, step, clr) ==
    LET alpha == px[1]
        bkg == IF (x \div step) % 2 # (y \div step) % 2 THEN clr ELSE Darker(clr)
    IN  IF alpha # 255
        THEN <<255, Blend(bkg[2], px[2], alpha),
               Blend(bkg[3], px[3], alpha), Blend(bkg[4], px[4], alpha)>>
        ELSE px

\* the pixel at (x, y) after add_grid (image.cpp:245-261)
GridPixel(px, x, y, step, clr) ==
    LET alpha == px[1]
        bkg == IF (x \div step) % 2 # (y \div step) % 2 THEN clr ELSE Darker(clr)
    IN  IF alpha # 255
        THEN <<Blend(bkg[1], px[1], alpha), Blend(bkg[2], px[2], alpha),
               Blend(bkg[3], px[3], alpha), Blend(bkg[4], px[4], alpha)>>
        ELSE px

\* image::add_grid(step, clr): a copy of src with every pixel of the
\* src.width x src.height area blended
AddGrid(src, step, clr) ==
    Image(src.width, src.height, src.transparent,
          [i \in 1..Len(src.data) |->
              IF i <= src.width * src.height
              THEN GridPixel(src.data[i], (i - 1) % src.width,
                             (i - 1) \div src.width, step, clr)
              ELSE src.data[i]])

(***************************************************************************)
(* viewer::calc_scale (viewer.cpp:90-131) as functions of the old scale.   *)
(***************************************************************************)
\* scale_op::zoom_in without the clamp to scale_max (a mutation)
ZoomInUnclamped(scale) == IF scale < scale_max THEN scale + scale_step ELSE scale

\* scale_op::zoom_in (viewer.cpp:95-102)
ZoomIn(scale) ==
    IF scale < scale_max
    THEN (IF scale + scale_step > scale_max THEN scale_max ELSE scale + scale_step)
    ELSE scale

\* scale_op::zoom_out without the final, shorter step down to scale_min
\* (a mutation)
ZoomOutNoFinalStep(scale) ==
    IF scale # scale_min /\ ToSizeT(scale - scale_min) > scale_step
    THEN ToSizeT(scale - scale_step) ELSE scale

\* scale_op::zoom_out whose last, shorter step ends at scale_step instead
\* of scale_min (a mutation)
ZoomOutStopsAtStep(scale) ==
    IF scale # scale_min
    THEN (IF ToSizeT(scale - scale_min) > scale_step
          THEN ToSizeT(scale - scale_step) ELSE scale_step)
    ELSE scale

\* scale_op::zoom_out (viewer.cpp:104-112); the subtractions are size_t
ZoomOut(scale) ==
    IF scale # scale_min
    THEN (IF ToSizeT(scale - scale_min) > scale_step
          THEN ToSizeT(scale - scale_step) ELSE scale_min)
    ELSE scale

\* `100 * (1.0f / (static_cast<float>(img) / wnd))` converted to size_t
\* (viewer.cpp:119,122)
FitPercent(img, wnd) ==
    FToNat(FMul(FromNat(100), FDiv(FromNat(1), FDiv(FromNat(img), FromNat(wnd)))))

\* scale_op::optimal (viewer.cpp:114-127), given the window size it reads
Optimal(imgw, imgh, wndw, wndh) ==
    LET s1 == IF wndw < imgw THEN FitPercent(imgw, wndw) ELSE 100
    IN  IF wndh < imgh /\ FitPercent(imgh, wndh) < s1
        THEN FitPercent(imgh, wndh) ELSE s1

(***************************************************************************)
(* Bounds of the model.                                                    *)
(***************************************************************************)
\* events handled by one run of the event loop
MaxEvents == 2
\* resizes of the parent window during one run
MaxResizes == 1

\* sizes <<width, height>> of the source images: smaller than, as large as
\* and larger than the windows, and one more than 100 times a window
SrcSizes == {<<1, 1>>, <<3, 2>>, <<2, 3>>, <<250, 2>>}

\* sizes <<width, height>> of the viewer's window: some narrower than
\* move_step, one wider
WndSizes == {<<2, 2>>, <<4, 3>>, <<12, 12>>}

\* command lines (main.cpp:83-104): --scale, where 0 (the default) asks for
\* the optimal scale; --border; --exit-unfocus
CommandLines ==
    { [scale |-> 0,    border |-> 0, exit_unfocus |-> FALSE],
      [scale |-> 0,    border |-> 1, exit_unfocus |-> TRUE],
      [scale |-> 100,  border |-> 0, exit_unfocus |-> TRUE],
      [scale |-> 998,  border |-> 0, exit_unfocus |-> FALSE] }

\* percentages image::resize can be asked for while the viewer runs
Percents == 0..scale_max

(***************************************************************************)
(* State.                                                                  *)
(***************************************************************************)
VARIABLES
    pc,            \* "start": constructed; "run": in x11::run; "exit"; "crash";
                   \* "failed": show() left by an exception
    file,          \* what load_image does for the file: an image or an exception
    scale,         \* viewer::scale
    border,        \* viewer::border
    exit_unfocus,  \* viewer::exit_unfocus
    img_,          \* viewer::img_, the original image
    parentW,       \* width of the parent window (XGetWindowAttributes)
    parentH,       \* height of the parent window
    width_,        \* x11::width_
    height_,       \* x11::height_
    image_,        \* x11::image_: the buffer handed to set_image
    img_x_,        \* x11::img_x_
    img_y_,        \* x11::img_y_
    title,         \* the title set on the parent window
    last,          \* the event handled last
    events,        \* number of events handled so far
    resizes,       \* number of resizes of the parent window so far
    thrown,        \* the exception that left show(), "none" if none did
    calls,         \* the calls the last handler made to build and show the image
    calc,          \* one application of viewer::calc_scale to drawn inputs
    rs,            \* one application of image::resize to a drawn buffer
    gr,            \* one application of image::add_grid to a drawn buffer
    ld             \* one application of load_image to a drawn source, or of
                   \* gif_load to a decoded file

viewerVars == <<pc, file, scale, border, exit_unfocus, img_, parentW, parentH,
                width_, height_, image_, img_x_, img_y_, title, last, events, resizes,
                thrown, calls>>
harnessVars == <<calc, rs, gr, ld>>
vars == <<pc, file, scale, border, exit_unfocus, img_, parentW, parentH,
          width_, height_, image_, img_x_, img_y_, title, last, events, resizes,
          thrown, calls, calc, rs, gr, ld>>

\* a pixel is <<alpha, red, green, blue>>, the bytes [31:24] ... [7:0] of rgba_t
Pixel(a, r, g, b) == <<a, r, g, b>>

\* the decoded content of a w x h file: every pixel differs from the others;
\* a transparent image has pixels of every kind of alpha
FilePixels(w, h, t) ==
    [i \in 1..(w * h) |->
        Pixel(IF t THEN (85 * i) % 256 ELSE 255, i, (7 * i) % 256, 255 - i)]

FileImage(w, h, t) == Image(w, h, t, FilePixels(w, h, t))

\* what load_image(file_name) does for the viewer's file: it returns an
\* image, or it throws (image_ldr.cpp:305, 310, 320, and the decoders)
Loaded(img) == [outcome |-> "image", image |-> img]
Failed(e) == [outcome |-> e, image |-> EmptyImage]
LoadErrors == {"system_error", "Unsupported format", "decode error"}

\* image_ == nullptr (x11.hpp:110)
NoXImage == [present |-> FALSE, width |-> 0, height |-> 0, percent |-> 0, grid |-> FALSE]

\* x11::img_w / x11::img_h (x11.hpp:81-84)
img_w == IF image_.present THEN image_.width ELSE 0
img_h == IF image_.present THEN image_.height ELSE 0

\* ResizeDim over the percentages and sizes the viewer uses, computed once
ResizeDimTable ==
    [p \in Percents, n \in {sz[1] : sz \in SrcSizes} \cup {sz[2] : sz \in SrcSizes}
        |-> ResizeDim(p, n)]

\* x11::updateWindowAttributes(border): the window is the parent less the
\* border on each side, as in x11::create (x11.cpp:87-90)
WindowSize(parent, b) == ToSizeT(parent - b * 2)

\* viewer::refresh, one axis (viewer.cpp:50-62 and 63-75): the offset of an
\* image of `size` in a window of `wnd`, given the previous image and offset.
\* `img_x + img.width < wnd_w` is compared in size_t.
PlaceAxis(size, wnd, oldSize, oldOff) ==
    IF size < wnd
    THEN wnd \div 2 - size \div 2
    ELSE LET off == oldOff + SDiv2(ToSSizeT(ToSizeT(oldSize - size)))
         IN  IF off > 0 THEN 0
             ELSE IF ToSizeT(off + size) < wnd
                  THEN ToSSizeT(ToSizeT(wnd - size))
                  ELSE off

\* the buffer viewer::refresh builds for the current original image at
\* percent sc (viewer.cpp:32-41): resized unless sc = 100, then the grid
\* added when transparent
Prepared(sc) ==
    [present |-> TRUE,
     width   |-> IF sc # 100 THEN ResizeDimTable[sc, img_'.width] ELSE img_'.width,
     height  |-> IF sc # 100 THEN ResizeDimTable[sc, img_'.height] ELSE img_'.height,
     percent |-> sc,
     grid    |-> img_'.transparent]

\* the calls of a refresh that adds the grid before it resizes (a variant)
RefreshCallsGridFirst(sc) ==
    <<"refresh">>
        \o (IF img_'.transparent THEN <<"add_grid">> ELSE <<>>)
        \o (IF sc # 100 THEN <<"resize">> ELSE <<>>)
        \o <<"set_image", "set_title">>

\* the calls of viewer::refresh at percent sc, in the order it makes them
\* (viewer.cpp:34-41, 77, 86): resize unless sc = 100, then add_grid if the
\* buffer is transparent (resize keeps the flag), then set_image, set_title
RefreshCalls(sc) ==
    <<"refresh">>
        \o (IF sc # 100 THEN <<"resize">> ELSE <<>>)
        \o (IF img_'.transparent THEN <<"add_grid">> ELSE <<>>)
        \o <<"set_image", "set_title">>

\* viewer::refresh (viewer.cpp:30-88) at scale sc
Refresh(sc) ==
    LET img == Prepared(sc)
        wnd_w == WindowSize(parentW, border)
        wnd_h == WindowSize(parentH, border)
    IN  /\ width_' = wnd_w
        /\ height_' = wnd_h
        /\ image_' = img
        /\ img_x_' = PlaceAxis(img.width, wnd_w, img_w, img_x_)
        /\ img_y_' = PlaceAxis(img.height, wnd_h, img_h, img_y_)
        /\ title' = <<img_'.width, img_'.height, sc>>
        /\ calls' = RefreshCalls(sc)

(***************************************************************************)
(* viewer::change_position (viewer.cpp:148-200).                           *)
(***************************************************************************)
\* the early return (viewer.cpp:158): the whole image is inside the window;
\* the sums of an ssize_t offset and a size_t size are compared in size_t
WholeInside(x, y, w, h, wnd_w, wnd_h) ==
    /\ x > 0
    /\ ToSizeT(x + w) < wnd_w
    /\ y > 0
    /\ ToSizeT(y + h) < wnd_h

\* move_op::left and move_op::up (viewer.cpp:163-170, 179-186)
PanBack(off) ==
    IF off <= 0
    THEN (IF off + move_step > 0 THEN 0 ELSE off + move_step)
    ELSE off

\* move_op::right and move_op::down (viewer.cpp:171-178, 187-194)
PanForth(off, size, wnd) ==
    IF ToSizeT(off + size) >= wnd
    THEN (IF ToSizeT(off - move_step + size) < wnd
          THEN ToSSizeT(ToSizeT(wnd - size))
          ELSE off - move_step)
    ELSE off

\* change_position(mv): the window size is read anew, then the offset of
\* the axis of mv moves unless the whole image is inside the window
ChangePosition(mv) ==
    LET wnd_w == WindowSize(parentW, border)
        wnd_h == WindowSize(parentH, border)
        inside == WholeInside(img_x_, img_y_, img_w, img_h, wnd_w, wnd_h)
    IN  /\ width_' = wnd_w
        /\ height_' = wnd_h
        /\ img_x_' = IF inside THEN img_x_
                     ELSE IF mv = "left" THEN PanBack(img_x_)
                     ELSE IF mv = "right" THEN PanForth(img_x_, img_w, wnd_w)
                     ELSE img_x_
        /\ img_y_' = IF inside THEN img_y_
                     ELSE IF mv = "up" THEN PanBack(img_y_)
                     ELSE IF mv = "down" THEN PanForth(img_y_, img_h, wnd_h)
                     ELSE img_y_
        /\ calls' = IF img_x_' # img_x_ \/ img_y_' # img_y_
                    THEN <<"move_image">> ELSE <<>>
        /\ UNCHANGED <<scale, image_, title>>

(***************************************************************************)
(* viewer::change_scale (viewer.cpp:133-146).                              *)
(***************************************************************************)
\* the scale becomes sc and refresh() runs whether or not that changes it
\* (a variant without the test of viewer.cpp:142)
ChangeScaleToAlwaysRefreshes(sc) ==
    IF sc \in Percents
    THEN /\ scale' = sc
         /\ Refresh(sc)
         /\ UNCHANGED pc
    ELSE /\ scale' = sc
         /\ pc' = "crash"
         /\ calls' = <<"refresh", "resize">>
         /\ UNCHANGED <<width_, height_, image_, img_x_, img_y_, title>>

\* the scale becomes sc; refresh() runs if that changes it.  A scale that
\* wrapped below zero asks image::resize for a buffer of some 2^64 percent:
\* the allocation throws (or the copy runs off the buffer) and the viewer
\* ends.
ChangeScaleTo(sc) ==
    IF sc = scale
    THEN /\ calls' = <<>>
         /\ UNCHANGED <<pc, scale, width_, height_, image_, img_x_, img_y_, title>>
    ELSE IF sc \in Percents
    THEN /\ scale' = sc
         /\ Refresh(sc)
         /\ UNCHANGED pc
    ELSE /\ scale' = sc
         /\ pc' = "crash"
         /\ calls' = <<"refresh", "resize">>
         /\ UNCHANGED <<width_, height_, image_, img_x_, img_y_, title>>

\* change_scale(scale_op::optimal): calc_scale reads the window size anew
\* (viewer.cpp:116) before it computes the scale
ChangeScaleOptimal ==
    LET wnd_w == WindowSize(parentW, border)
        wnd_h == WindowSize(parentH, border)
        sc == Optimal(img_.width, img_.height, wnd_w, wnd_h)
    IN  IF sc = scale
        THEN /\ width_' = wnd_w
             /\ height_' = wnd_h
             /\ calls' = <<>>
             /\ UNCHANGED <<pc, scale, image_, img_x_, img_y_, title>>
        ELSE ChangeScaleTo(sc)

(***************************************************************************)
(* The viewer: viewer::show, the event loop x11::run and the key handler.  *)
(***************************************************************************)
Options == <<file, border, exit_unfocus>>

\* sizes the parent window can have: the window and the border on each side
ParentSizes == {<<sz[1] + 2 * border, sz[2] + 2 * border>> : sz \in WndSizes}

\* the viewer as main() leaves it before show() (viewer.hpp:80-94,
\* main.cpp:83-104, x11.hpp:95-114)
InitViewer ==
    /\ pc = "start"
    /\ \E cmd \in CommandLines :
          /\ scale = cmd.scale
          /\ border = cmd.border
          /\ exit_unfocus = cmd.exit_unfocus
    /\ \/ \E sz \in SrcSizes :
             file = Loaded(FileImage(sz[1], sz[2], (sz[1] + sz[2]) % 2 = 1))
       \/ \E e \in LoadErrors : file = Failed(e)
    /\ img_ = EmptyImage
    /\ \E sz \in ParentSizes :
          /\ parentW = sz[1]
          /\ parentH = sz[2]
    /\ width_ = 0
    /\ height_ = 0
    /\ image_ = NoXImage
    /\ img_x_ = 0
    /\ img_y_ = 0
    /\ title = <<>>
    /\ last = "none"
    /\ events = 0
    /\ resizes = 0
    /\ thrown = "none"
    /\ calls = <<>>

\* viewer::show with a window created and the loop entered although
\* load_image threw (a variant)
ShowFailsDegraded ==
    /\ pc = "start"
    /\ file.outcome # "image"
    /\ pc' = "run"
    /\ thrown' = file.outcome
    /\ last' = "show"
    /\ width_' = WindowSize(parentW, border)
    /\ height_' = WindowSize(parentH, border)
    /\ UNCHANGED <<Options, scale, img_, parentW, parentH, image_, img_x_, img_y_,
                   title, events, resizes, calls, harnessVars>>

\* viewer::show when load_image throws (viewer.cpp:19): the exception
\* leaves show() before img_ is assigned and before wnd_.create
ShowFails ==
    /\ pc = "start"
    /\ file.outcome # "image"
    /\ pc' = "failed"
    /\ thrown' = file.outcome
    /\ last' = "show"
    /\ UNCHANGED <<Options, scale, img_, parentW, parentH, width_, height_, image_,
                   img_x_, img_y_, title, events, resizes, calls, harnessVars>>

\* viewer::show (viewer.cpp:17-28) up to the entry of the event loop
Show ==
    /\ pc = "start"
    /\ file.outcome = "image"
    /\ img_' = file.image
    /\ LET wnd_w == WindowSize(parentW, border)
           wnd_h == WindowSize(parentH, border)
           sc == IF scale = 0
                 THEN Optimal(file.image.width, file.image.height, wnd_w, wnd_h)
                 ELSE scale
       IN  /\ scale' = sc
           /\ Refresh(sc)
    /\ pc' = "run"
    /\ last' = "show"
    /\ UNCHANGED <<Options, parentW, parentH, events, resizes, thrown, harnessVars>>

\* the next event taken, with the original image overwritten by a buffer
\* of the displayed size (a variant that resizes in place)
HandlingResizesInPlace(name) ==
    /\ pc = "run"
    /\ events < MaxEvents
    /\ events' = events + 1
    /\ last' = name
    /\ img_' = [img_ EXCEPT !.width = img_w, !.height = img_h]
    /\ UNCHANGED <<Options, parentW, parentH, resizes, thrown, harnessVars>>

\* the loop of x11::run takes the next event (x11.cpp:168-169); no handler
\* assigns img_, and image::resize and image::add_grid are const
\* (image.hpp:25, 35)
Handling(name) ==
    /\ pc = "run"
    /\ events < MaxEvents
    /\ events' = events + 1
    /\ last' = name
    /\ UNCHANGED <<Options, img_, parentW, parentH, resizes, thrown, harnessVars>>

\* XK_Left, XK_KP_Left, XK_h (viewer.cpp:206-210)
KeyLeft ==
    /\ Handling("left")
    /\ ChangePosition("left")
    /\ UNCHANGED pc

\* XK_Right, XK_KP_Right, XK_l (viewer.cpp:211-215)
KeyRight ==
    /\ Handling("right")
    /\ ChangePosition("right")
    /\ UNCHANGED pc

\* XK_Up, XK_KP_Up, XK_k (viewer.cpp:216-220)
KeyUp ==
    /\ Handling("up")
    /\ ChangePosition("up")
    /\ UNCHANGED pc

\* XK_Down, XK_KP_Down, XK_j (viewer.cpp:221-225)
KeyDown ==
    /\ Handling("down")
    /\ ChangePosition("down")
    /\ UNCHANGED pc

\* XK_plus, XK_equal, XK_KP_Add (viewer.cpp:227-231)
KeyZoomIn ==
    /\ Handling("zoom_in")
    /\ ChangeScaleTo(ZoomIn(scale))

\* XK_minus, XK_KP_Subtract (viewer.cpp:232-235)
KeyZoomOut ==
    /\ Handling("zoom_out")
    /\ ChangeScaleTo(ZoomOut(scale))

\* XK_BackSpace (viewer.cpp:236-238)
KeyOptimal ==
    /\ Handling("optimal")
    /\ ChangeScaleOptimal

\* XK_1 .. XK_9, XK_0 (viewer.cpp:240-249)
KeyAbsolute ==
    \E k \in 1..10 :
        /\ Handling("absolute")
        /\ ChangeScaleTo(10 * k)

\* the keys for which on_keypress returns false (viewer.cpp:251-261)
QuitKeySyms ==
    {"XK_Escape", "XK_Cancel", "XK_Return", "XK_KP_Enter", "XK_F3", "XK_F4",
     "XK_F10", "XK_q", "XK_e", "XK_x"}

\* a key of QuitKeySyms is pressed: the handler returns false and x11::run
\* breaks out of its loop (x11.cpp:174-176)
KeyQuit ==
    /\ QuitKeySyms # {}
    /\ Handling("quit")
    /\ pc' = "exit"
    /\ calls' = <<>>
    /\ UNCHANGED <<scale, width_, height_, image_, img_x_, img_y_, title>>

\* any other key (viewer.cpp:263-267)
KeyOther ==
    /\ Handling("other")
    /\ calls' = <<>>
    /\ UNCHANGED <<pc, scale, width_, height_, image_, img_x_, img_y_, title>>

\* Expose: the image is put again where it is (x11.cpp:170-171)
Expose ==
    /\ Handling("expose")
    /\ calls' = <<>>
    /\ UNCHANGED <<pc, scale, width_, height_, image_, img_x_, img_y_, title>>

\* FocusOut (x11.cpp:177-179)
FocusOut ==
    /\ Handling("focus_out")
    /\ pc' = IF exit_unfocus THEN "exit" ELSE pc
    /\ calls' = <<>>
    /\ UNCHANGED <<scale, width_, height_, image_, img_x_, img_y_, title>>

\* the environment resizes the parent window; the viewer handles no such
\* event and sees the new size when it next reads the window attributes
ParentResize ==
    /\ pc = "run"
    /\ resizes < MaxResizes
    /\ \E sz \in ParentSizes \ {<<parentW, parentH>>} :
          /\ parentW' = sz[1]
          /\ parentH' = sz[2]
    /\ resizes' = resizes + 1
    /\ last' = "resize"
    /\ UNCHANGED <<pc, Options, scale, img_, width_, height_, image_,
                   img_x_, img_y_, title, events, thrown, calls, harnessVars>>

\* the harness variables at rest
CalcIdle == [op |-> "none"]
ResizeIdle == [percent |-> 0, src |-> EmptyImage, out |-> EmptyImage]
GridIdle == [step |-> 0]
LoadIdle == [outcome |-> "idle"]

Init ==
    /\ InitViewer
    /\ calc = CalcIdle
    /\ rs = ResizeIdle
    /\ gr = GridIdle
    /\ ld = LoadIdle

Next ==
    \/ Show
    \/ ShowFails
    \/ KeyLeft
    \/ KeyRight
    \/ KeyUp
    \/ KeyDown
    \/ KeyZoomIn
    \/ KeyZoomOut
    \/ KeyOptimal
    \/ KeyAbsolute
    \/ KeyQuit
    \/ KeyOther
    \/ Expose
    \/ FocusOut
    \/ ParentResize

Spec == Init /\ [][Next]_vars

(***************************************************************************)
(* viewer::calc_scale on its own: one application to an old scale, or to   *)
(* an image and a window size, with the viewer left as constructed.        *)
(***************************************************************************)
\* the largest old scale zoom_in and zoom_out are applied to
MaxOldScale == 1010
\* window sizes 1..MaxFitWindow and the sizes of FitWindows are fitted
MaxFitWindow == 60

\* image and window sizes of the optimal scale: 400 x 300 in 200 x 300 and
\* 100 x 100 in every small window are among them
FitImages == {100, 300, 400}
FitWindows == 1..MaxFitWindow \cup {200, 300}

\* the viewer of one fixed command line, not yet shown
ViewerAtRest ==
    /\ InitViewer
    /\ scale = 100
    /\ file = Loaded(FileImage(1, 1, FALSE))
    /\ parentW = 12

InitAtRest ==
    /\ ViewerAtRest
    /\ calc = CalcIdle
    /\ rs = ResizeIdle
    /\ gr = GridIdle
    /\ ld = LoadIdle

\* calc_scale(scale_op::zoom_in) at scale s
CalcZoomIn ==
    /\ calc = CalcIdle
    /\ \E s \in 0..MaxOldScale :
          calc' = [op |-> "zoom_in", old |-> s, new |-> ZoomIn(s)]
    /\ UNCHANGED <<viewerVars, rs, gr, ld>>

\* calc_scale(scale_op::zoom_out) at scale s
CalcZoomOut ==
    /\ calc = CalcIdle
    /\ \E s \in 0..MaxOldScale :
          calc' = [op |-> "zoom_out", old |-> s, new |-> ZoomOut(s)]
    /\ UNCHANGED <<viewerVars, rs, gr, ld>>

\* calc_scale(scale_op::optimal) for an image iw x ih in a window ww x wh
CalcOptimal ==
    /\ calc = CalcIdle
    /\ \E iw \in FitImages, ih \in FitImages, ww \in FitWindows, wh \in FitWindows :
          calc' = [op |-> "optimal", imgw |-> iw, imgh |-> ih,
                   wndw |-> ww, wndh |-> wh, new |-> Optimal(iw, ih, ww, wh)]
    /\ UNCHANGED <<viewerVars, rs, gr, ld>>

\* the size along one axis of the buffer refresh() builds at percent p for
\* a source of n pixels (viewer.cpp:34-38)
BufferDim(p, n) == IF p # 100 THEN ResizeDim(p, n) ELSE n

\* calc_scale(scale_op::zoom_in) at scale s and calc_scale(scale_op::zoom_out)
\* at the scale that gives, with the sizes of the buffers refresh() builds
\* for a source of n pixels before and after the pair
CalcZoomInOut ==
    /\ calc = CalcIdle
    /\ \E s \in 0..MaxOldScale, n \in FitImages :
          LET mid == ZoomIn(s)
              new == ZoomOut(mid)
          IN  calc' = [op |-> "zoom_in_out", old |-> s, mid |-> mid, new |-> new,
                       src |-> n, before |-> BufferDim(s, n),
                       after |-> BufferDim(new, n)]
    /\ UNCHANGED <<viewerVars, rs, gr, ld>>

NextCalc ==
    \/ CalcZoomIn
    \/ CalcZoomOut
    \/ CalcOptimal
    \/ CalcZoomInOut

SpecCalc == InitAtRest /\ [][NextCalc]_vars

(***************************************************************************)
(* image::resize on its own: one application to a decoded buffer.          *)
(***************************************************************************)
\* image::resize(src, p) for a buffer of w columns (none included) and h rows
ApplyResize ==
    /\ rs = ResizeIdle
    /\ \E w \in 0..MaxResizeWidth, h \in 1..MaxResizeHeight,
          p \in scale_min..scale_max :
          /\ ResizeDim(p, w) * ResizeDim(p, h) <= MaxResizePixels
          /\ LET src == FileImage(w, h, (w + h) % 2 = 1)
             IN  rs' = [percent |-> p, src |-> src, out |-> Resize(src, p)]
    /\ UNCHANGED <<viewerVars, calc, gr, ld>>

SpecResize == InitAtRest /\ [][ApplyResize]_vars

(***************************************************************************)
(* The source index image::resize reads for one destination pixel, for    *)
(* sources too large to be built pixel by pixel.                           *)
(***************************************************************************)
\* widths of the sources: small ones, and widths whose product with the
\* factor, or which themselves, take more than the 24 bits of a float
WideWidths == {1, 16, 3000, 1677722, 3000000, 16777217, 16777219}

\* MaxSampleHeight rows at most
MaxSampleHeight == 2

\* the loop body of image::resize (image.cpp:228-232) for destination pixel
\* (x, y) of a source of w x h pixels at percent p: row_src and the column
\* added to it
SampleIndex(w, h, p, x, y) ==
    LET factor == ResizeScale(p)
        row_src == SampleAt(factor, y) * w
        col == SampleAt(factor, x)
    IN  [percent |-> p, width |-> w, height |-> h,
         out_width |-> ResizeDim(p, w), out_height |-> ResizeDim(p, h),
         x |-> x, y |-> y, row_src |-> row_src, col |-> col,
         index |-> row_src + col]

\* image::resize(p) on a source of w x h pixels reaches one of the corner
\* pixels of its (non-empty) destination
ApplySample ==
    /\ rs = ResizeIdle
    /\ \E w \in WideWidths, h \in 1..MaxSampleHeight, p \in scale_min..scale_max :
          /\ ResizeDim(p, w) > 0
          /\ ResizeDim(p, h) > 0
          /\ \E x \in {0, ResizeDim(p, w) - 1}, y \in {0, ResizeDim(p, h) - 1} :
                rs' = SampleIndex(w, h, p, x, y)
    /\ UNCHANGED <<viewerVars, calc, gr, ld>>

SpecSample == InitAtRest /\ [][ApplySample]_vars

(***************************************************************************)
(* image::add_grid on its own: one application to a buffer.                *)
(***************************************************************************)
\* bounds of the buffers and of the grid step
MaxGridWidth == 4
MaxGridHeight == 3
MaxGridStep == 3

\* alpha values of the buffers: transparent, opaque and in between
AlphaLevels == <<0, 255, 128, 1, 254>>

\* grid colours: the default, white, black, and one whose channels are
\* below the darkening delta
GridColours == {<<0, 64, 64, 64>>, <<0, 255, 255, 255>>, <<0, 0, 0, 0>>, <<0, 16, 8, 200>>}

\* a buffer of w x h pixels, every pixel different, whose alpha values run
\* through AlphaLevels starting at the k-th
GridSource(w, h, k) ==
    Image(w, h, TRUE,
          [i \in 1..(w * h) |->
              Pixel(AlphaLevels[((i + k) % Len(AlphaLevels)) + 1],
                    (37 * i) % 256, (101 * i + 7) % 256, 255 - i)])

\* image::add_grid(step, clr) for a buffer of w x h pixels
ApplyGrid ==
    /\ gr = GridIdle
    /\ \E w \in 1..MaxGridWidth, h \in 1..MaxGridHeight, k \in 1..Len(AlphaLevels),
          step \in 1..MaxGridStep, clr \in GridColours :
          LET src == GridSource(w, h, k)
          IN  gr' = [step |-> step, clr |-> clr, src |-> src,
                     out |-> AddGrid(src, step, clr)]
    /\ UNCHANGED <<viewerVars, calc, rs, ld>>

SpecGrid == InitAtRest /\ [][ApplyGrid]_vars

(***************************************************************************)
(* load_image (image_ldr.cpp:301-321) and the registry of loaders          *)
(* (image_ldr.cpp:276-299), applied to one source.                         *)
(***************************************************************************)
\* loader::file_header_t (image_ldr.cpp:17)
HeaderSize == 16

\* the signatures of jpg_check, png_check and gif_check
\* (image_ldr.cpp:51, 121, 213)
JpgSig == <<255, 216>>
PngSig == <<137, 80, 78, 71, 13, 10, 26, 10>>
GifSig == <<71, 73, 70>>

\* `memcmp(header.data(), sig, sizeof(sig)) == 0`
Check(sig, header) == SubSeq(header, 1, Len(sig)) = sig

\* the table `loaders`, in its order; a format that is compiled out has
\* check = load = nullptr
Loaders(have) ==
    << [fmt |-> "jpeg", sig |-> JpgSig, enabled |-> "jpeg" \in have],
       [fmt |-> "png",  sig |-> PngSig, enabled |-> "png" \in have],
       [fmt |-> "gif",  sig |-> GifSig, enabled |-> "gif" \in have] >>

\* PNG colour types (png.h)
PNG_COLOR_TYPE_GRAY == 0
PNG_COLOR_TYPE_RGB == 2
PNG_COLOR_TYPE_PALETTE == 3
PNG_COLOR_TYPE_GRAY_ALPHA == 4
PNG_COLOR_TYPE_RGB_ALPHA == 6

\* img.transparent as png_load sets it (image_ldr.cpp:174-176)
PngTransparent(color_type) ==
    ~(color_type \in {PNG_COLOR_TYPE_RGB, PNG_COLOR_TYPE_GRAY, PNG_COLOR_TYPE_PALETTE})

\* img.transparent of the image a decoder returns: jpg_load leaves the
\* default (image.hpp:44), gif_load sets true (image_ldr.cpp:246)
DecodedTransparent(fmt, src) ==
    IF fmt = "png" THEN PngTransparent(src.color_type)
    ELSE fmt = "gif"

\* the position of the file after fread of n bytes from pos
AfterRead(pos, n, size) == IF pos + n <= size THEN pos + n ELSE size

\* the file position left where it is (a variant without rewind)
NoRewind(pos) == pos

\* rewind(fd) (image_ldr.cpp:312)
Rewind(pos) == 0

\* the loop over `loaders` (image_ldr.cpp:314-318) from entry k on: the
\* formats whose check ran, and the entry that accepted (0 if none)
RECURSIVE Dispatch(_, _, _, _)
Dispatch(have, header, k, tested) ==
    IF k > Len(Loaders(have)) THEN [tested |-> tested, hit |-> 0]
    ELSE LET it == Loaders(have)[k]
         IN  IF ~it.enabled THEN Dispatch(have, header, k + 1, tested)
             ELSE IF Check(it.sig, header)
                  THEN [tested |-> Append(tested, it.fmt), hit |-> k]
                  ELSE Dispatch(have, header, k + 1, Append(tested, it.fmt))

\* the result of load_image without a decoder having run
NotLoaded(outcome, read, tested) ==
    [outcome |-> outcome, read |-> read, tested |-> tested, decoders |-> <<>>,
     pos |-> 0, image |-> EmptyImage]

\* load_image for a build with the formats `have` and the source src:
\* the outcome ("image" or the exception thrown), the number of header
\* bytes read, the checks run, the decoders run, the file position the
\* decoder started at, and the image returned
LoadImage(have, src) ==
    IF ~src.openable THEN NotLoaded("system_error", 0, <<>>)
    ELSE LET read == AfterRead(0, HeaderSize, src.size)
         IN  IF read # HeaderSize THEN NotLoaded("system_error", read, <<>>)
             ELSE LET d == Dispatch(have, src.bytes, 1, <<>>)
                      fmt == Loaders(have)[d.hit].fmt
                  IN  IF d.hit = 0
                      THEN NotLoaded("Unsupported format", read, d.tested)
                      ELSE [outcome |-> IF src.decodes THEN "image" ELSE "decode error",
                            read |-> read,
                            tested |-> d.tested,
                            decoders |-> <<fmt>>,
                            pos |-> Rewind(read),
                            image |-> IF src.decodes
                                      THEN FileImage(src.width, src.height,
                                                     DecodedTransparent(fmt, src))
                                      ELSE EmptyImage]

\* the first bytes of the sources: the signatures, whole, cut short, with
\* a wrong byte and out of order, and other content
Zeros(n) == [i \in 1..n |-> 0]
HeaderStarts ==
    { <<>>, JpgSig, <<255>>, <<255, 0>>, <<216, 255>>, <<255, 216, 255, 224>>,
      PngSig, SubSeq(PngSig, 1, 7), <<137, 80, 78, 72, 13, 10, 26, 10>>,
      <<80, 78, 71>>, GifSig, <<71, 73>>, <<71, 73, 70, 56, 57, 97>>,
      <<73, 70, 71>>, <<66, 77>> }

\* sizes in bytes of the sources: empty, shorter than the header, exactly
\* the header, longer
SourceSizes == {0, 3, 15, 16, 40}

\* the sources: whether the file opens, its size, its first HeaderSize
\* bytes (zero filled), whether its decoder succeeds, and what a PNG
\* header says of its colour type and tRNS chunk
Sources ==
    { [openable |-> o, size |-> n, bytes |-> SubSeq(st \o Zeros(HeaderSize), 1, HeaderSize),
       decodes |-> dec, color_type |-> ct, trns |-> tr, width |-> 2, height |-> 1] :
        o \in BOOLEAN, n \in SourceSizes, st \in HeaderStarts, dec \in BOOLEAN,
        ct \in {PNG_COLOR_TYPE_GRAY, PNG_COLOR_TYPE_RGB, PNG_COLOR_TYPE_PALETTE,
                 PNG_COLOR_TYPE_GRAY_ALPHA, PNG_COLOR_TYPE_RGB_ALPHA},
        tr \in BOOLEAN }

\* load_image for one build and one source
ApplyLoad ==
    /\ ld = LoadIdle
    /\ \E have \in SUBSET {"jpeg", "png", "gif"}, src \in Sources :
          ld' = [have |-> have, src |-> src] @@ LoadImage(have, src)
    /\ UNCHANGED <<viewerVars, calc, rs, gr>>

SpecLoad == InitAtRest /\ [][ApplyLoad]_vars

(***************************************************************************)
(* gif_load (image_ldr.cpp:223-273) once DGifSlurp has decoded the file:   *)
(* the raster of the first frame is copied into a buffer of the size of    *)
(* the logical screen.                                                     *)
(***************************************************************************)
\* the largest side of the logical screen, the largest offset of the
\* frame and the largest side of the frame
MaxGifScreen == 3
MaxGifOffset == 1
MaxGifFrame == 2

\* the colour indices of the rasters (GifByteType)
GifColours == {0, 1}

\* clr_map[color] (image_ldr.cpp:255, 265): red, green, blue
GifColorMap(color) == <<16 + color, 32 + color, 48 + color>>

\* RasterBits of an n-pixel frame: of one colour, or of alternating colours
GifRasters(n) ==
    {[i \in 1..n |-> c] : c \in GifColours}
        \cup {[i \in 1..n |-> i % 2]}

\* the index of img.data that `pixel` points to in row y of the frame after
\* x increments (image_ldr.cpp:258, 268); width is img.width
GifPixelIndex(width, frame_x, frame_y, y, x) ==
    frame_y * width + y * width + frame_x + x

\* the index of RasterBits read as raster[x] in row y of the frame
\* (image_ldr.cpp:259, 261)
GifRasterIndex(width, frame_w, y, x) == y * width + x

\* gif_load from image_ldr.cpp:244 on, for a logical screen SWidth x
\* SHeight, the first frame's descriptor and raster, and the background
\* colour; `stray` is the byte that a read beyond the raster yields.  The
\* result has the indices written and read, and the buffer as the writes
\* inside it leave it (of the writes to one index the last one stays).
GifLoad(SWidth, SHeight, frame_x, frame_y, frame_w, frame_h, raster, background, stray) ==
    LET size == SHeight * SWidth
        steps == {<<y, x>> : y \in 0..(frame_h - 1), x \in 0..(frame_w - 1)}
        Dst(st) == GifPixelIndex(SWidth, frame_x, frame_y, st[1], st[2])
        Src(st) == GifRasterIndex(SWidth, frame_w, st[1], st[2])
        Color(st) == IF Src(st) < Len(raster) THEN raster[Src(st) + 1] ELSE stray
        Value(st) == IF Color(st) = background
                     THEN Pixel(0, 0, 0, 0)
                     ELSE LET rgb == GifColorMap(Color(st))
                          IN  Pixel(255, rgb[1], rgb[2], rgb[3])
        Order(st) == st[1] * frame_w + st[2]
        Last(i) == CHOOSE st \in steps :
                      /\ Dst(st) = i
                      /\ \A other \in steps : Dst(other) = i => Order(other) <= Order(st)
    IN  [width |-> SWidth, height |-> SHeight,
         frame_x |-> frame_x, frame_y |-> frame_y,
         frame_w |-> frame_w, frame_h |-> frame_h,
         raster |-> raster, background |-> background,
         writes |-> {Dst(st) : st \in steps},
         reads |-> {Src(st) : st \in steps},
         image |-> Image(SWidth, SHeight, TRUE,
                         [i \in 1..size |->
                             IF \E st \in steps : Dst(st) = i - 1
                             THEN Value(Last(i - 1))
                             ELSE Pixel(0, 0, 0, 0)])]

\* what the build can do with an application of gif_load: an access
\* outside the buffer or outside the raster is undefined behaviour, the
\* image is returned or the process is stopped
GifOutcomes(g) ==
    IF /\ \A i \in g.writes : i < g.width * g.height
       /\ \A i \in g.reads : i < g.frame_w * g.frame_h
    THEN {"image"}
    ELSE {"image", "crash"}

\* gif_load for one decoded file
ApplyGif ==
    /\ ld = LoadIdle
    /\ \E SWidth \in 1..MaxGifScreen, SHeight \in 1..MaxGifScreen,
          frame_x \in 0..MaxGifOffset, frame_y \in 0..MaxGifOffset,
          frame_w \in 1..MaxGifFrame, frame_h \in 1..MaxGifFrame,
          background \in GifColours, stray \in GifColours :
          \E raster \in GifRasters(frame_w * frame_h) :
             LET g == GifLoad(SWidth, SHeight, frame_x, frame_y, frame_w, frame_h,
                              raster, background, stray)
             IN  \E outcome \in GifOutcomes(g) :
                    ld' = [outcome |-> outcome] @@ g
    /\ UNCHANGED <<viewerVars, calc, rs, gr>>

SpecGif == InitAtRest /\ [][ApplyGif]_vars

(***************************************************************************)
(* Properties.                                                             *)
(***************************************************************************)
Min(a, b) == IF a < b THEN a ELSE b
Max(a, b) == IF a > b THEN a ELSE b

\* the size the viewer's window has now
WndW == WindowSize(parentW, border)
WndH == WindowSize(parentH, border)

\* an image of `size` at offset `off` is centred in `wnd` (the two margins
\* differ by one pixel at most) if it fits, and covers `wnd` otherwise
CentredOrCovering(size, wnd, off) ==
    IF size <= wnd
    THEN 2 * off - (wnd - size) \in {-1, 0, 1}
    ELSE off <= 0 /\ off + size >= wnd

\* the step handles a key event named in `names`
KeyStep(names) == last' \in names /\ events' = events + 1

\* C1: while the window keeps its size, in every state after show() the
\* image is, on each axis, centred if it is no larger than the window and
\* covers the window otherwise.
PlacementCentredOrCovering ==
    (pc \in {"run", "exit"} /\ resizes = 0) =>
        /\ CentredOrCovering(img_w, WndW, img_x_)
        /\ CentredOrCovering(img_h, WndH, img_y_)

\* C2: in every state after show() the scale is an integer of
\* scale_min..scale_max.
ScaleWithinLimits ==
    pc \in {"run", "exit", "crash"} => scale \in scale_min..scale_max

\* C3: the optimal scale is min(100, floor(100 * window_width / src_width),
\* floor(100 * window_height / src_height)).
OptimalIsFloorOfRatios ==
    calc.op = "optimal" =>
        calc.new = Min(100, Min((100 * calc.wndw) \div calc.imgw,
                                (100 * calc.wndh) \div calc.imgh))

\* C4: zoom_in at a scale s of scale_min..scale_max gives
\* min(s + scale_step, scale_max).
ZoomInAddsStepClamped ==
    (calc.op = "zoom_in" /\ calc.old \in scale_min..scale_max) =>
        calc.new = Min(calc.old + scale_step, scale_max)

\* zoom_in from 998 yields 1000
ZoomInFrom998 ==
    calc.op = "zoom_in" /\ calc.old = 998 /\ calc.new = 1000

\* C5: zoom_out at a scale s of scale_min..scale_max gives s - scale_step,
\* or scale_min where that would be below scale_min.
ZoomOutSubtractsStepClamped ==
    (calc.op = "zoom_out" /\ calc.old \in scale_min..scale_max) =>
        calc.new = Max(calc.old - scale_step, scale_min)

\* zoom_out from 3 yields 1
ZoomOutFrom3 ==
    calc.op = "zoom_out" /\ calc.old = 3 /\ calc.new = 1

\* C6: a pan along an axis on which the whole image lies inside the window
\* changes neither offset, nor the scale, nor the displayed buffer.
PanOfContainedImageIsNoOp ==
    [][ ( \/ /\ KeyStep({"left", "right"})
             /\ img_x_ >= 0
             /\ img_x_ + img_w <= WndW
          \/ /\ KeyStep({"up", "down"})
             /\ img_y_ >= 0
             /\ img_y_ + img_h <= WndH )
        => UNCHANGED <<img_x_, img_y_, scale, image_>> ]_vars

\* C7: for an image larger than the window on the pan axis and covering it,
\* right/down set the offset to max(offset - move_step, window - image) and
\* left/up set it to min(offset + move_step, 0).
PanStepsWithinCover ==
    [][ /\ ( /\ img_w > WndW
             /\ img_x_ <= 0
             /\ img_x_ + img_w >= WndW )
           => /\ KeyStep({"right"}) => img_x_' = Max(img_x_ - move_step, WndW - img_w)
              /\ KeyStep({"left"}) => img_x_' = Min(img_x_ + move_step, 0)
        /\ ( /\ img_h > WndH
             /\ img_y_ <= 0
             /\ img_y_ + img_h >= WndH )
           => /\ KeyStep({"down"}) => img_y_' = Max(img_y_ - move_step, WndH - img_h)
              /\ KeyStep({"up"}) => img_y_' = Min(img_y_ + move_step, 0) ]_vars

\* the step runs refresh(): a key changed the scale
RefreshStep == pc = "run" /\ pc' = "run" /\ scale' # scale

\* C8: when the window has shrunk below the displayed image on an axis and
\* the placement was valid for the old window, the next refresh() leaves the
\* image covering the new window on that axis.
RefreshCoversShrunkWindow ==
    [][ RefreshStep =>
          /\ ( /\ WndW < width_
               /\ WndW < img_w
               /\ WndW < img_w'
               /\ CentredOrCovering(img_w, width_, img_x_) )
             => (img_x_' <= 0 /\ img_x_' + img_w' >= WndW)
          /\ ( /\ WndH < height_
               /\ WndH < img_h
               /\ WndH < img_h'
               /\ CentredOrCovering(img_h, height_, img_y_) )
             => (img_y_' <= 0 /\ img_y_' + img_h' >= WndH) ]_vars

\* C9: resize(src, p) has floor(p/100 * src.width) columns and
\* floor(p/100 * src.height) rows, and width * height pixels.
ResizeDimensionsExact ==
    rs # ResizeIdle =>
        /\ rs.out.width = (rs.percent * rs.src.width) \div 100
        /\ rs.out.height = (rs.percent * rs.src.height) \div 100
        /\ Len(rs.out.data) = rs.out.width * rs.out.height

ResizeSamplesFloor ==
    rs # ResizeIdle =>
        \A i \in 1..Len(rs.out.data) :
            LET x == (i - 1) % rs.out.width
                y == (i - 1) \div rs.out.width
                sx == (x * 100) \div rs.percent
                sy == (y * 100) \div rs.percent
            IN  /\ sx < rs.src.width
                /\ sy < rs.src.height
                /\ rs.out.data[i] = rs.src.data[sy * rs.src.width + sx + 1]

\* the pixels of the grid harness: index i is pixel (GridX(i), GridY(i))
GridX(i) == (i - 1) % gr.src.width
GridY(i) == (i - 1) \div gr.src.width
\* pixel i lies in a cell of the colour clr itself (x / step and y / step
\* of different parity)
InCellA(i) == (GridX(i) \div gr.step) % 2 # (GridY(i) \div gr.step) % 2

\* C12: add_grid leaves every pixel of alpha 255 unchanged and keeps the
\* width, the height and the transparent flag.
GridKeepsOpaquePixels ==
    gr # GridIdle =>
        /\ gr.out.width = gr.src.width
        /\ gr.out.height = gr.src.height
        /\ gr.out.transparent = gr.src.transparent
        /\ Len(gr.out.data) = Len(gr.src.data)
        /\ \A i \in 1..Len(gr.src.data) :
               gr.src.data[i][1] = 255 => gr.out.data[i] = gr.src.data[i]

\* add_grid was applied to a buffer with an opaque pixel, which it kept,
\* and a pixel of another alpha, which it changed
GridKeptOpaqueChangedOther ==
    /\ gr # GridIdle
    /\ \E i \in 1..Len(gr.src.data) :
           gr.src.data[i][1] = 255 /\ gr.out.data[i] = gr.src.data[i]
    /\ \E i \in 1..Len(gr.src.data) :
           gr.src.data[i][1] # 255 /\ gr.out.data[i] # gr.src.data[i]

\* C13 as stated: a pixel of alpha 0 in a cell of the colour clr comes out
\* with exactly clr in red, green and blue.
TransparentPixelGetsGridColour ==
    gr # GridIdle =>
        \A i \in 1..Len(gr.src.data) :
            (gr.src.data[i][1] = 0 /\ InCellA(i)) =>
                /\ gr.out.data[i][2] = gr.clr[2]
                /\ gr.out.data[i][3] = gr.clr[3]
                /\ gr.out.data[i][4] = gr.clr[4]

\* a channel c of the grid colour as a pixel of alpha 0 shows it
Shown(c) == IF c = 0 THEN 0 ELSE c - 1

\* C13 amended: a pixel of alpha 0 in a cell of the colour clr comes out
\* with each of red, green and blue one below the channel of clr (0 for a
\* channel that is 0).
TransparentPixelGetsGridColourLessOne ==
    gr # GridIdle =>
        \A i \in 1..Len(gr.src.data) :
            (gr.src.data[i][1] = 0 /\ InCellA(i)) =>
                /\ gr.out.data[i][2] = Shown(gr.clr[2])
                /\ gr.out.data[i][3] = Shown(gr.clr[3])
                /\ gr.out.data[i][4] = Shown(gr.clr[4])

\* a pixel of alpha 0 in a cell of the default colour 0x404040 came out
\* 0x3f3f3f
TransparentPixelOnDefaultColour ==
    /\ gr # GridIdle
    /\ gr.clr = <<0, 64, 64, 64>>
    /\ \E i \in 1..Len(gr.src.data) :
           /\ gr.src.data[i][1] = 0
           /\ InCellA(i)
           /\ gr.out.data[i] = <<0, 63, 63, 63>>

\* the formats of the registry, in registration order
Registered == <<"jpeg", "png", "gif">>
\* the registered formats whose matcher accepts the header of the source
Accepting == {k \in 1..3 : Check(Loaders(ld.have)[k].sig, ld.src.bytes)}
\* the enabled ones among the registered formats 1..n, in order
RECURSIVE EnabledUpTo(_)
EnabledUpTo(n) ==
    IF n = 0 THEN <<>>
    ELSE IF Registered[n] \in ld.have
         THEN Append(EnabledUpTo(n - 1), Registered[n])
         ELSE EnabledUpTo(n - 1)
\* the first enabled format whose matcher accepts (0 if none)
FirstAccepting ==
    IF \E k \in Accepting : Registered[k] \in ld.have
    THEN CHOOSE k \in Accepting :
            /\ Registered[k] \in ld.have
            /\ \A j \in Accepting : Registered[j] \in ld.have => k <= j
    ELSE 0

\* C14: once the HeaderSize bytes of the header are read, load_image tests
\* the enabled matchers in registration order up to the first that accepts,
\* runs the decoder of that one and no other, from position 0 of the
\* source; no header is accepted by two matchers.
LoadDispatchesFirstMatch ==
    (ld # LoadIdle /\ ld.outcome # "system_error") =>
        /\ ld.read = HeaderSize
        /\ Cardinality(Accepting) <= 1
        /\ IF FirstAccepting = 0
           THEN ld.tested = EnabledUpTo(3) /\ ld.decoders = <<>>
           ELSE /\ ld.tested = EnabledUpTo(FirstAccepting)
                /\ ld.decoders = <<Registered[FirstAccepting]>>
                /\ ld.pos = 0

\* a PNG source in a build with every format: the JPEG matcher, then the
\* PNG matcher were tested and the PNG decoder alone ran, from position 0
LoadedPngAfterJpegTest ==
    /\ ld # LoadIdle
    /\ ld.have = {"jpeg", "png", "gif"}
    /\ ld.outcome = "image"
    /\ ld.tested = <<"jpeg", "png">>
    /\ ld.decoders = <<"png">>
    /\ ld.pos = 0

\* C15: a source whose header no enabled matcher accepts, a source too
\* short to fill the header included, fails with "Unsupported format";
\* no decoder runs and no image is returned.
UnmatchedSourceIsUnsupported ==
    ( /\ ld # LoadIdle
      /\ ld.src.openable
      /\ \/ ld.src.size < HeaderSize
         \/ FirstAccepting = 0 ) =>
        /\ ld.outcome = "Unsupported format"
        /\ ld.decoders = <<>>
        /\ ld.image = EmptyImage

\* C17: the transparent flag of a decoded image is true for a source whose
\* colour model can express transparency (a PNG with an alpha channel, a
\* paletted PNG with a tRNS chunk, a GIF) and false for an opaque colour
\* model (a PNG in plain grey, RGB or palette, a JPEG).
AlphaFlagFollowsColourModel ==
    (ld # LoadIdle /\ ld.outcome = "image") =>
        LET fmt == ld.decoders[1]
            ct == ld.src.color_type
        IN  /\ fmt = "gif" => ld.image.transparent
            /\ fmt = "jpeg" => ~ld.image.transparent
            /\ fmt = "png" =>
                  /\ ct \in {PNG_COLOR_TYPE_GRAY_ALPHA, PNG_COLOR_TYPE_RGB_ALPHA}
                        => ld.image.transparent
                  /\ (ct = PNG_COLOR_TYPE_PALETTE /\ ld.src.trns)
                        => ld.image.transparent
                  /\ ~ld.src.trns /\ ct \in {PNG_COLOR_TYPE_GRAY, PNG_COLOR_TYPE_RGB,
                                              PNG_COLOR_TYPE_PALETTE}
                        => ~ld.image.transparent

\* C16: when load_image throws, show() is left by that exception: nothing
\* of the file is kept as the original image or displayed, no window is
\* created and the event loop is not entered; and show() is left by an
\* exception in that case only.
FailedLoadAbortsShow ==
    /\ (pc # "start" /\ file.outcome # "image") =>
          /\ pc = "failed"
          /\ thrown = file.outcome
          /\ img_ = EmptyImage
          /\ image_ = NoXImage
          /\ width_ = 0
          /\ height_ = 0
          /\ events = 0
    /\ thrown # "none" => pc = "failed"
    /\ pc = "failed" => file.outcome # "image"

\* show() was left by a decoder's error
ShowLeftByDecodeError ==
    /\ pc = "failed"
    /\ thrown = "decode error"
    /\ last = "show"

\* C18: in every state after show() the original image is the decoded
\* one (dimensions, pixels, transparent flag), and the displayed buffer is
\* derived from it: resized to the scale unless the scale is 100, with the
\* grid exactly if the original is transparent.
OriginalImageUnchanged ==
    pc \in {"run", "exit", "crash"} =>
        /\ img_ = file.image
        /\ pc # "crash" =>
              /\ image_.present
              /\ image_.percent = scale
              /\ image_.width = IF scale = 100 THEN file.image.width
                                 ELSE ResizeDim(scale, file.image.width)
              /\ image_.height = IF scale = 100 THEN file.image.height
                                  ELSE ResizeDim(scale, file.image.height)
              /\ image_.grid = file.image.transparent

\* after a zoom to a scale other than 100 and a further key the buffer
\* shown differs in size from the original, which is still the decoded one
OriginalKeptAfterZoom ==
    /\ pc = "run"
    /\ events = 2
    /\ scale # 100
    /\ image_.width # img_.width
    /\ Len(img_.data) > 0
    /\ img_ = file.image

\* the step runs the placement pass of refresh(): show(), or a key that
\* changed the scale
PlacementStep == (pc = "start" /\ pc' = "run") \/ RefreshStep

\* C19: the placement pass sets the offset of an axis on which the image
\* is no larger than the window to (window - image) / 2, integer division.
PlacementCentresByHalfDifference ==
    [][ PlacementStep =>
          /\ img_w' <= width_' => img_x_' = (width_' - img_w') \div 2
          /\ img_h' <= height_' => img_y_' = (height_' - img_h') \div 2 ]_vars

\* old_offset + (old_size - new_size) / 2, snapped to 0 if positive and to
\* wnd - size if the image would end before the far edge of the window
Snapped(size, wnd, oldSize, oldOff) ==
    LET off == oldOff + SDiv2(oldSize - size)
    IN  IF off > 0 THEN 0
        ELSE IF off + size < wnd THEN wnd - size
        ELSE off

\* C20: the placement pass sets the offset of an axis on which the new
\* image is larger than the window to the snapped re-centred offset, and
\* the image then covers the window on that axis.
PlacementOfLargerImageCovers ==
    [][ PlacementStep =>
          /\ img_w' > width_' =>
                /\ img_x_' = Snapped(img_w', width_', img_w, img_x_)
                /\ img_x_' <= 0
                /\ img_x_' + img_w' >= width_'
          /\ img_h' > height_' =>
                /\ img_y_' = Snapped(img_h', height_', img_h, img_y_)
                /\ img_y_' <= 0
                /\ img_y_' + img_h' >= height_' ]_vars

\* the size along one axis of the buffer refresh() displays at percent p for
\* a source of n pixels (viewer.cpp:32-37), over the sizes of FitImages
DisplayedDim ==
    [p \in 0..100, n \in FitImages |-> BufferDim(p, n)]

\* at percent p the displayed image is within the window on both axes
FitsAt(p) ==
    /\ DisplayedDim[p, calc.imgw] <= calc.wndw
    /\ DisplayedDim[p, calc.imgh] <= calc.wndh

\* C21: the optimal scale is the largest percentage up to 100 at which the
\* displayed image is within the window on both axes: it fits at that
\* percentage and at no larger one up to 100.
OptimalIsLargestFit ==
    calc.op = "optimal" =>
        /\ calc.new <= 100
        /\ FitsAt(calc.new)
        /\ \A p \in (calc.new + 1)..100 : ~FitsAt(p)

\* the step changes the size of the window
WindowResizeStep == parentW' # parentW \/ parentH' # parentH

\* C22: a step that changes the window's size leaves the image placed for
\* the new size (centred or covering on each axis), and every pan or zoom
\* command finds the placement computed for the size the window has.
PlacementFollowsWindow ==
    [][ /\ WindowResizeStep =>
              /\ CentredOrCovering(img_w', WndW', img_x_')
              /\ CentredOrCovering(img_h', WndH', img_y_')
        /\ KeyStep({"left", "right", "up", "down",
                    "zoom_in", "zoom_out", "optimal", "absolute"}) =>
              /\ width_ = WndW
              /\ height_ = WndH ]_vars

\* the zoom keys and the pan keys
ZoomKeys == {"zoom_in", "zoom_out", "optimal", "absolute"}
PanKeys == {"left", "right", "up", "down"}

\* how many times the handler of the step just taken called c
Called(c) == Cardinality({i \in DOMAIN calls : calls[i] = c})

\* C23: a zoom command that changes the scale runs refresh() exactly once
\* (and hands one buffer to the display if refresh() returns); one that
\* leaves the scale as it is runs nothing and leaves offsets, buffer and
\* title as they were; a pan command never rebuilds the buffer.
ZoomRefreshesOnceIfScaleChanges ==
    [][ /\ KeyStep(ZoomKeys) =>
              IF scale' # scale
              THEN /\ Called("refresh")' = 1
                   /\ pc' = "run" => Called("set_image")' = 1
              ELSE /\ calls' = <<>>
                   /\ UNCHANGED <<img_x_, img_y_, image_, title>>
        /\ KeyStep(PanKeys) =>
              /\ Called("refresh")' = 0
              /\ Called("resize")' = 0
              /\ Called("set_image")' = 0
              /\ UNCHANGED <<scale, image_, title>> ]_vars

\* the key '0' was pressed at 100 percent after a pan had moved the image:
\* nothing was rebuilt
ZoomToCurrentScaleAfterPan ==
    /\ pc = "run"
    /\ events = 2
    /\ last = "absolute"
    /\ scale = 100
    /\ calls = <<>>
    /\ image_.percent = 100
    /\ ~CentredOrCovering(img_w, WndW, img_x_)

\* in the calls of the last handler every call of `first` precedes every
\* call of `then`
Precedes(first, then) ==
    \A i, j \in DOMAIN calls : (calls[i] = first /\ calls[j] = then) => i < j

\* C24: every refresh() calls resize if and only if the scale is not 100,
\* then add_grid if and only if the image is transparent, never before
\* resize, and hands the buffer so built to the display after both.
RefreshBuildsInOrder ==
    Called("refresh") = 1 =>
        /\ calls[1] = "refresh"
        /\ Called("resize") = (IF scale # 100 THEN 1 ELSE 0)
        /\ pc # "crash" =>
              /\ Called("add_grid") = (IF img_.transparent THEN 1 ELSE 0)
              /\ Called("set_image") = 1
              /\ Precedes("resize", "add_grid")
              /\ Precedes("resize", "set_image")
              /\ Precedes("add_grid", "set_image")
              /\ image_.present
              /\ image_.percent = scale
              /\ image_.grid = img_.transparent

\* a transparent image was zoomed: resized, the grid added, displayed
RefreshedTransparentAfterZoom ==
    /\ pc = "run"
    /\ last = "zoom_in"
    /\ img_.transparent
    /\ calls = <<"refresh", "resize", "add_grid", "set_image", "set_title">>

\* the colour of the cell of pixel i: clr where x / step and y / step differ
\* in parity, clr - 0x101010 elsewhere
CellColour(i) == IF InCellA(i) THEN gr.clr ELSE Darker(gr.clr)

\* C25: every pixel of alpha a # 255 comes out with each of its four bytes
\* (alpha, red, green, blue) equal to
\* (cell_byte * (255 - a) + src_byte * a) >> 8, a value of one byte, where
\* the cell colour is clr or clr - 0x101010 by the parity of the cell; the
\* alpha byte is blended like the others.
GridBlendsEachChannel ==
    gr # GridIdle =>
        \A i \in 1..Len(gr.src.data) :
            LET a == gr.src.data[i][1]
            IN  a # 255 =>
                    \A c \in 1..4 :
                        /\ gr.out.data[i][c] =
                              (CellColour(i)[c] * (255 - a) + gr.src.data[i][c] * a) \div 256
                        /\ gr.out.data[i][c] \in 0..255

\* a pixel of alpha 128 in a cell of the darker colour of 0x1008c8, whose
\* subtraction borrows into the alpha byte, came out with an alpha that is
\* neither 255 nor its own
BlendedAlphaOnDarkerCell ==
    /\ gr # GridIdle
    /\ gr.clr = <<0, 16, 8, 200>>
    /\ \E i \in 1..Len(gr.src.data) :
           /\ gr.src.data[i][1] = 128
           /\ ~InCellA(i)
           /\ gr.out.data[i][1] \notin {255, 128}
           /\ gr.out.data[i] # gr.src.data[i]

\* C26: the event loop handles one event per step and ends exactly when a
\* quit key (Escape, Cancel, Return, KP_Enter, F3, F4, F10, q, e, x) is
\* pressed or the focus is lost while exit_unfocus is set; every other event
\* keeps it running, and once it has ended no event is handled.
LoopEndsOnlyOnQuitOrUnfocus ==
    [][ /\ QuitKeySyms = {"XK_Escape", "XK_Cancel", "XK_Return", "XK_KP_Enter",
                          "XK_F3", "XK_F4", "XK_F10", "XK_q", "XK_e", "XK_x"}
        /\ events' \in {events, events + 1}
        /\ pc = "run" =>
              ( pc' # "run" <=>
                  \/ KeyStep({"quit"})
                  \/ KeyStep({"focus_out"}) /\ exit_unfocus )
        /\ pc \notin {"start", "run"} => events' = events ]_vars

\* C27: in every state after show() the displayed buffer is the one built
\* for the current scale, its dimensions are floor(scale / 100 * width) by
\* floor(scale / 100 * height) of the original image (the original's own at
\* scale 100), and the title shows the original dimensions and the scale.
DisplayMatchesScale ==
    pc \in {"run", "exit", "crash"} =>
        /\ image_.present
        /\ image_.percent = scale
        /\ title = <<img_.width, img_.height, scale>>
        /\ image_.width = (IF scale = 100 THEN img_.width
                           ELSE (scale * img_.width) \div 100)
        /\ image_.height = (IF scale = 100 THEN img_.height
                            ELSE (scale * img_.height) \div 100)

\* C28: from every scale s of 1..995, zoom_in followed by zoom_out gives s
\* again, and the displayed buffer has the size it had before.
ZoomInThenOutRestores ==
    (calc.op = "zoom_in_out" /\ calc.old \in scale_min..(scale_max - scale_step)) =>
        /\ calc.new = calc.old
        /\ calc.after = calc.before

\* zoom_in from 1 gave 6, and zoom_out from 6, less than a full step above
\* a multiple of the step, gave 1 again
ZoomInThenOutFromOne ==
    /\ calc.op = "zoom_in_out"
    /\ calc.old = 1
    /\ calc.mid = 6
    /\ calc.new = 1
    /\ calc.after = calc.before

\* a pan toward the far edge from offset `off`, for an image of `size`
\* larger than the window `wnd` and covering it, stays at the clamp bound
\* wnd - size if it is there, and otherwise moves nearer to it, not beyond
NearerFarBound(off, offNext, size, wnd) ==
    (size > wnd /\ off <= 0 /\ off >= wnd - size) =>
        IF off = wnd - size THEN offNext = off
        ELSE offNext < off /\ offNext >= wnd - size

\* the same for a pan toward the near edge, whose clamp bound is 0
NearerNearBound(off, offNext, size, wnd) ==
    (size > wnd /\ off <= 0 /\ off >= wnd - size) =>
        IF off = 0 THEN offNext = off
        ELSE offNext > off /\ offNext <= 0

\* C29: every zoom_in below scale_max raises the scale, and at scale_max
\* changes nothing; every zoom_out above scale_min lowers the scale, and at
\* scale_min changes nothing; every pan of an image larger than the window
\* moves the offset nearer to its clamp bound and not beyond, and at the
\* bound changes nothing: so repeating one command reaches its bound after
\* finitely many commands and stays there.
RepeatedCommandReachesBound ==
    [][ /\ (KeyStep({"zoom_in"}) /\ scale \in scale_min..scale_max) =>
              IF scale = scale_max
              THEN UNCHANGED <<scale, image_, img_x_, img_y_, title>>
              ELSE scale' > scale /\ scale' <= scale_max
        /\ (KeyStep({"zoom_out"}) /\ scale \in scale_min..scale_max) =>
              IF scale = scale_min
              THEN UNCHANGED <<scale, image_, img_x_, img_y_, title>>
              ELSE scale' < scale /\ scale' >= scale_min
        /\ KeyStep({"right"}) => NearerFarBound(img_x_, img_x_', img_w, WndW)
        /\ KeyStep({"down"}) => NearerFarBound(img_y_, img_y_', img_h, WndH)
        /\ KeyStep({"left"}) => NearerNearBound(img_x_, img_x_', img_w, WndW)
        /\ KeyStep({"up"}) => NearerNearBound(img_y_, img_y_', img_h, WndH) ]_vars

\* C30: for every destination pixel of resize(p), the source column is
\* below the source's width, the source row below its height, and the
\* index read below width * height; the pixel written is inside the
\* destination.
ResizeReadsInsideSource ==
    rs # ResizeIdle =>
        /\ rs.x < rs.out_width
        /\ rs.y < rs.out_height
        /\ rs.col < rs.width
        /\ rs.row_src < rs.width * rs.height
        /\ rs.index < rs.width * rs.height

\* the pixel of the screen with index i lies inside the frame of g
GifCovered(g, i) ==
    /\ i \div g.width \in g.frame_y..(g.frame_y + g.frame_h - 1)
    /\ i % g.width \in g.frame_x..(g.frame_x + g.frame_w - 1)

\* C31: for every logical screen size and every descriptor of the first
\* frame, gif_load writes pixels only at indices below width * height of
\* the buffer and reads raster bytes only at indices below Width * Height
\* of the frame's raster, and the pixels of the screen that the frame does
\* not cover stay fully transparent (0).
GifCopyStaysInside ==
    ld # LoadIdle =>
        /\ \A i \in ld.writes : i < ld.width * ld.height
        /\ \A i \in ld.reads : i < ld.frame_w * ld.frame_h
        /\ \A i \in 0..(ld.width * ld.height - 1) :
              ~GifCovered(ld, i) => ld.image.data[i + 1] = Pixel(0, 0, 0, 0)

=============================================================================
